---- MODULE Spec2Model ----
(***************************************************************************)
(* StudyBuddy: the App component (chat orchestrator and crop flow) and the *)
(* Gemini service wrapper, as a state machine.  One action per event       *)
(* handler or asynchronous continuation; a step is one run of a handler on *)
(* the UI event loop, from its start to its first suspension point, with   *)
(* the React state it commits.                                             *)
(*                                                                         *)
(* Conventions.  An optional value (T | null | undefined) is a sequence of *)
(* length 0 or 1.  A text is a sequence of characters; fixed texts of the  *)
(* program are one-token sequences.  Message ids and timestamps (random    *)
(* and clock values) are left out; the ghost field n of a user message and *)
(* of a request is the number of the send that made it.                    *)
(***************************************************************************)
EXTENDS Integers, Sequences, FiniteSets, TLC

\* ------------------------------------------------------------- bounds ----
\* sends accepted in a run of the chat
MaxSends == 2
\* sends accepted in a run where an empty file can be attached
MaxSendsWithEmptyFile == 1
\* sends accepted in a run where blank texts are typed
MaxSendsWithBlanks == 2
MaxJobs == 1
MaxReaders == 1
\* characters in a line given to formatBold
MaxLineLen == 6

\* ---------------------------------------------------------- constants ----
\* temperature: 0.4, in tenths
TemperatureTenths == 4
\* makeAspectCrop({unit: '%', width: 90}, ...)
InitialCropWidthPercent == 90

None == <<>>
Some(x) == <<x>>

\* ------------------------------------------------------------- texts -----
Texts == { <<>>, <<" ">>, <<"q">> }

IsSpace(c) == c = " "

RECURSIVE TrimStart(_)
TrimStart(t) == IF t # <<>> /\ IsSpace(Head(t)) THEN TrimStart(Tail(t)) ELSE t

RECURSIVE TrimEnd(_)
TrimEnd(t) ==
    IF t # <<>> /\ IsSpace(t[Len(t)]) THEN TrimEnd(SubSeq(t, 1, Len(t) - 1)) ELSE t

\* String.prototype.trim
Trim(t) == TrimEnd(TrimStart(t))

WelcomeText == <<"Hi! I'm StudyBuddy.">>
ApologyText == <<"Sorry, I encountered an error. Please check your connection.">>
NoSolutionText == <<"I couldn't generate a solution. Please try again.">>
DefaultQuestion == <<"Please solve the problem in the image.">>
ModelName == "gemini-2.5-flash"

Languages == {"English", "Hindi"}
LoadingState == {"idle", "uploading", "thinking", "streaming"}

\* What the service can answer with: response.text, possibly empty.
ReplyTexts == { <<>>, <<"answer">> }

\* ---------------------------------------------------------- markdown -----
\* The grave accent, which a string cannot hold as itself.
Backquote == "U+0060"

\* The characters lines are made of: the three formatBold escapes, the two
\* it reads as markers, and a letter.
LineChars == { "&", "<", ">", "*", Backquote, "x" }

RECURSIVE LinesOfLen(_)
LinesOfLen(k) ==
    IF k = 0 THEN { <<>> }
    ELSE { Append(l, c) : l \in LinesOfLen(k - 1), c \in LineChars }

\* Lines of the kinds the renderer is made for, longer than MaxLineLen.
ExampleLines ==
    { <<"<", "b", ">", " ", "*", "*", "o", "k", "*", "*", " ", "<", "/", "b", ">">>,
      <<"a", " ", "*", "*", "b", "*", "*", " ", Backquote, "c", Backquote, " ", "&", " ", "d">> }

\* The lines of up to maxLen characters, and the examples.
Lines(maxLen) == UNION { LinesOfLen(k) : k \in 0..maxLen } \cup ExampleLines

\* text.replace(/c/g, by) for a single character c
RECURSIVE ReplaceChar(_, _, _)
ReplaceChar(text, c, by) ==
    IF text = <<>> THEN <<>>
    ELSE (IF Head(text) = c THEN by ELSE <<Head(text)>>)
         \o ReplaceChar(Tail(text), c, by)

\* .replace(/&/g, "&amp;").replace(/</g, "&lt;").replace(/>/g, "&gt;")
EscapeHtml(text) ==
    ReplaceChar(ReplaceChar(ReplaceChar(text, "&", <<"&", "a", "m", "p", ";">>),
                            "<", <<"&", "l", "t", ";">>),
                ">", <<"&", "g", "t", ";">>)

\* Whether marker stands in text at position i.
MarkerAt(text, i, marker) ==
    /\ i + Len(marker) - 1 <= Len(text)
    /\ SubSeq(text, i, i + Len(marker) - 1) = marker

\* The positions after i + Len(marker) - 1 where marker stands again.
ClosingsAfter(text, i, marker) ==
    { j \in (i + Len(marker))..Len(text) : MarkerAt(text, j, marker) }

Min(S) == CHOOSE m \in S : \A k \in S : m <= k

\* text.replace(/marker(.*?)marker/g, open + "$1" + close), from position
\* i on: the leftmost match, its group as short as can be, then on from
\* the end of the match.
RECURSIVE ReplaceMarked(_, _, _, _, _)
ReplaceMarked(text, i, marker, open, close) ==
    IF i > Len(text) THEN <<>>
    ELSE IF MarkerAt(text, i, marker) /\ ClosingsAfter(text, i, marker) # {}
         THEN LET j == Min(ClosingsAfter(text, i, marker))
              IN  open \o SubSeq(text, i + Len(marker), j - 1) \o close
                  \o ReplaceMarked(text, j + Len(marker), marker, open, close)
         ELSE <<text[i]>> \o ReplaceMarked(text, i + 1, marker, open, close)

\* The tags formatBold writes; a class attribute is one token.
BoldOpen == <<"<", "b", " ", "class=\"font-semibold text-gray-900\"", ">">>
BoldClose == <<"<", "/", "b", ">">>
CodeOpen ==
    <<"<", "c", "o", "d", "e", " ",
      "class=\"bg-gray-100 px-1 py-0.5 rounded text-rose-600 font-mono text-sm\"",
      ">">>
CodeClose == <<"<", "/", "c", "o", "d", "e", ">">>

\* formatBold
FormatBold(text) ==
    ReplaceMarked(ReplaceMarked(EscapeHtml(text), 1, <<"*", "*">>, BoldOpen, BoldClose),
                  1, <<Backquote>>, CodeOpen, CodeClose)

\* ------------------------------------------------------------ images -----
\* Byte contents.  of: the picture the bytes come from ("" for no bytes at
\* all); region/surface: empty for an original file, else the source
\* rectangle painted and the size of the canvas it was painted on.
OriginalBytes(name) == [of |-> name, region |-> <<>>, surface |-> <<>>]
EmptyBytes == OriginalBytes("")

\* The files the user can pick: A and B are pictures, E has no bytes.
FileA == [type |-> "image/png",  bytes |-> OriginalBytes("A")]
FileB == [type |-> "image/jpeg", bytes |-> OriginalBytes("B")]
FileE == [type |-> "image/png",  bytes |-> EmptyBytes]
Files == {FileA, FileB, FileE}

\* HTMLImageElement.naturalWidth/naturalHeight once the bytes are decoded.
NaturalSize(bytes) ==
    IF bytes = OriginalBytes("A") THEN <<1200, 800>>
    ELSE IF bytes = OriginalBytes("B") THEN <<300, 200>>
    ELSE <<0, 0>>

\* HTMLImageElement.width/height as the modal lays the picture out
\* (className "max-w-full max-h-[75vh] object-contain").
DisplayedSize(bytes) ==
    IF bytes = OriginalBytes("A") THEN <<600, 400>>
    ELSE IF bytes = OriginalBytes("B") THEN <<200, 100>>
    ELSE <<0, 0>>

\* Whether the <img> ever fires its load event for these bytes.
Decodable(bytes) == NaturalSize(bytes) # <<0, 0>>

\* Base64 text of some bytes, and back.  The text is the empty string
\* exactly when there are no bytes.
Base64(bytes) == [b64 |-> bytes]
Atob(text) == text.b64
EmptyString == Base64(EmptyBytes)

\* FileReader.readAsDataURL: "data:<type>;base64,<text>"
ReadAsDataURL(file) == [mediatype |-> file.type, data |-> Base64(file.bytes)]

\* base64String.split(',')[1]
AfterComma(url) == url.data

\* (await fetch(url)).blob()
FetchBlob(url) == [type |-> url.mediatype, bytes |-> Atob(url.data)]

\* new File([blob], name, {type})
NewFile(blob, type) == [type |-> type, bytes |-> blob.bytes]

\* fileToGenerativePart, on a read that succeeds
FileToGenerativePart(file) ==
    [data |-> AfterComma(ReadAsDataURL(file)), mimeType |-> file.type]

\* ----------------------------------------------------------- service -----
\* JavaScript truthiness of an optional string
TruthyData(opt) == opt # None /\ opt[1] # EmptyString
TruthyMime(opt) == opt # None /\ opt[1] # ""

InlinePart(data, mimeType) ==
    [kind |-> "inlineData", data |-> Some(data), mimeType |-> Some(mimeType),
     language |-> None, question |-> None]

\* The systemInstruction template: the preamble, which names the language,
\* then the question.
TextPart(language, question) ==
    [kind |-> "text", data |-> None, mimeType |-> None,
     language |-> Some(language), question |-> Some(question)]

\* prompt || "Please solve the problem in the image."
QuestionOf(prompt) == IF prompt = <<>> THEN DefaultQuestion ELSE prompt

\* Mutant: the text part pushed before the image part.
SolveHomeworkPartsTextFirst(prompt, imageBase64, mimeType, language) ==
    <<TextPart(language, QuestionOf(prompt))>>
    \o (IF TruthyData(imageBase64) /\ TruthyMime(mimeType)
        THEN <<InlinePart(imageBase64[1], mimeType[1])>>
        ELSE <<>>)

SolveHomeworkParts(prompt, imageBase64, mimeType, language) ==
    (IF TruthyData(imageBase64) /\ TruthyMime(mimeType)
        THEN <<InlinePart(imageBase64[1], mimeType[1])>>
        ELSE <<>>)
    \o <<TextPart(language, QuestionOf(prompt))>>

\* The generateContent call solveHomework makes.  n is the number of the
\* send it belongs to.
SolveHomeworkRequest(n, prompt, imageBase64, mimeType, language) ==
    [n |-> n, model |-> ModelName, role |-> "user",
     parts |-> SolveHomeworkParts(prompt, imageBase64, mimeType, language),
     temperature |-> TemperatureTenths]

\* response.text || "I couldn't generate a solution. Please try again."
SolveHomeworkResult(responseText) ==
    IF responseText = <<>> THEN NoSolutionText ELSE responseText

\* ---------------------------------------------------------- messages -----
WelcomeMessage ==
    [role |-> "model", text |-> WelcomeText, image |-> None, isError |-> FALSE,
     n |-> 0]

\* Mutant: the user message recorded without its image.
NewUserMessageNoImage(n, currentText, currentImage) ==
    [role |-> "user", text |-> currentText, image |-> None,
     isError |-> FALSE, n |-> n]

NewUserMessage(n, currentText, currentImage) ==
    [role |-> "user", text |-> currentText,
     image |-> IF currentImage = None THEN None ELSE Some(currentImage[1].base64),
     isError |-> FALSE, n |-> n]

NewModelMessage(n, responseText) ==
    [role |-> "model", text |-> responseText, image |-> None, isError |-> FALSE,
     n |-> n]

\* Mutant: the error's own message shown, not flagged.
ErrorMessageRaw(n) ==
    [role |-> "model", text |-> <<"Failed to connect to the tutor.">>,
     image |-> None, isError |-> FALSE, n |-> n]

ErrorMessage(n) ==
    [role |-> "model", text |-> ApologyText, image |-> None, isError |-> TRUE,
     n |-> n]

\* ------------------------------------------------------------- state -----
VARIABLES
    messages,       \* useState<Message[]>
    inputText,      \* useState('')
    selectedImage,  \* useState<{base64, mimeType, preview} | null>
    loadingState,   \* useState<LoadingState>('idle')
    language,       \* useState<'English' | 'Hindi'>
    isCropping,     \* useState(false)
    cropImageSrc,   \* useState<string | null>
    crop,           \* useState<Crop>()
    completedCrop,  \* useState<PixelCrop>()
    imgLoaded,      \* whether the modal's <img> has fired load for its src
    readers,        \* FileReaders of onSelectFile that have not finished
    jobs,           \* getCroppedImg runs suspended at an await or a callback
    requests,       \* generateContent calls that have not settled
    sends,          \* ghost: sends accepted so far
    calls,          \* ghost: generateContent calls made so far
    answered,       \* ghost: model messages appended after a settled call
    confirmedFor,   \* ghost: the cropImageSrc that completedCrop was confirmed on
    alerted,        \* ghost: whether the step just taken called alert()
    line,           \* a line of a message that MarkdownText renders
    html            \* the __html MarkdownText sets for the line, once rendered

chatVars == <<messages, inputText, selectedImage, loadingState, language>>
cropVars == <<isCropping, cropImageSrc, crop, completedCrop, imgLoaded>>
asyncVars == <<readers, jobs, requests>>
ghostCounters == <<sends, calls, answered>>
renderVars == <<line, html>>
vars == <<chatVars, cropVars, asyncVars, ghostCounters, confirmedFor, alerted,
          renderVars>>

\* The ghosts of a step of the App that is not onComplete, with or without
\* an alert; the step renders no line.
Quiet == alerted' = FALSE /\ UNCHANGED <<confirmedFor, renderVars>>
Alert == alerted' = TRUE /\ UNCHANGED <<confirmedFor, renderVars>>

\* The App as mounted.
InitApp ==
    /\ messages = <<WelcomeMessage>>
    /\ inputText = <<>>
    /\ selectedImage = None
    /\ loadingState = "idle"
    /\ language = "English"
    /\ isCropping = FALSE
    /\ cropImageSrc = None
    /\ crop = None
    /\ completedCrop = None
    /\ imgLoaded = FALSE
    /\ readers = {}
    /\ jobs = {}
    /\ requests = {}
    /\ sends = 0
    /\ calls = 0
    /\ answered = 0
    /\ confirmedFor = None
    /\ alerted = FALSE

Init ==
    /\ InitApp
    /\ line = <<>>
    /\ html = None

\* A line waits to be rendered.
InitRender ==
    /\ InitApp
    /\ line \in Lines(MaxLineLen)
    /\ html = None

\* <p dangerouslySetInnerHTML={{ __html: formatBold(line) }} />
RenderLine ==
    /\ html = None
    /\ html' = Some(FormatBold(line))
    /\ UNCHANGED <<chatVars, cropVars, asyncVars, ghostCounters, confirmedFor,
                   alerted, line>>

\* -------------------------------------------------------- chat logic -----
\* Mutant: the guard without the loadingState test.
SendRejectedIgnoringBusy == Trim(inputText) = <<>> /\ selectedImage = None

\* Mutant: the guard without the test for something to send.
SendRejectedOnlyBusy == loadingState # "idle"

\* The guard of handleSendMessage (and of the send button's disabled prop).
SendRejected ==
    (Trim(inputText) = <<>> /\ selectedImage = None) \/ loadingState # "idle"

\* Mutant: a send announced as an upload.
AfterAcceptUploading == "uploading"

\* What an accepted send leaves in loadingState.
AfterAccept == "thinking"

\* Mutant: the send without its clearImage().
AcceptSendKeepingImage ==
    LET n == sends + 1
        currentText == inputText
        currentImage == selectedImage
        base64 == IF currentImage = None THEN None ELSE Some(currentImage[1].base64)
        mimeType == IF currentImage = None THEN None ELSE Some(currentImage[1].mimeType)
    IN  /\ messages' = Append(messages, NewUserMessage(n, currentText, currentImage))
        /\ inputText' = <<>>
        /\ loadingState' = AfterAccept
        /\ requests' = requests \cup
              {SolveHomeworkRequest(n, currentText, base64, mimeType, language)}
        /\ sends' = n
        /\ calls' = calls + 1
        /\ UNCHANGED <<selectedImage, language, cropVars, readers, jobs, answered>>

\* setMessages / setInputText / clearImage / setLoadingState, then the call
\* to solveHomework up to its await.
AcceptSend ==
    LET n == sends + 1
        currentText == inputText
        currentImage == selectedImage
        base64 == IF currentImage = None THEN None ELSE Some(currentImage[1].base64)
        mimeType == IF currentImage = None THEN None ELSE Some(currentImage[1].mimeType)
    IN  /\ messages' = Append(messages, NewUserMessage(n, currentText, currentImage))
        /\ inputText' = <<>>
        /\ selectedImage' = None
        /\ loadingState' = AfterAccept
        /\ requests' = requests \cup
              {SolveHomeworkRequest(n, currentText, base64, mimeType, language)}
        /\ sends' = n
        /\ calls' = calls + 1
        /\ UNCHANGED <<language, cropVars, readers, jobs, answered>>

\* handleSendMessage, from the send button or from handleKeyDown (Enter).
\* No more than maxSends sends are accepted in a run.
HandleSendMessage(maxSends) ==
    IF SendRejected
    THEN /\ Quiet
         /\ UNCHANGED <<chatVars, cropVars, asyncVars, ghostCounters>>
    ELSE /\ sends < maxSends
         /\ AcceptSend
         /\ Quiet

\* What the continuation after the await leaves in loadingState (finally).
AfterSettle == "idle"

\* Mutant: the reply overwrites the last message instead of being appended.
ResponseArrivesInPlace(req, responseText) ==
    /\ req \in requests
    /\ messages' = [messages EXCEPT ![Len(messages)] =
                        NewModelMessage(req.n, SolveHomeworkResult(responseText))]
    /\ loadingState' = AfterSettle
    /\ requests' = requests \ {req}
    /\ answered' = answered + 1
    /\ Quiet
    /\ UNCHANGED <<inputText, selectedImage, language, cropVars, readers, jobs,
                   sends, calls>>

\* generateContent resolved: solveHomework returns, the model message is
\* appended, finally sets idle.
ResponseArrives(req, responseText) ==
    /\ req \in requests
    /\ messages' = Append(messages, NewModelMessage(req.n, SolveHomeworkResult(responseText)))
    /\ loadingState' = AfterSettle
    /\ requests' = requests \ {req}
    /\ answered' = answered + 1
    /\ Quiet
    /\ UNCHANGED <<inputText, selectedImage, language, cropVars, readers, jobs,
                   sends, calls>>

\* Mutant: the catch without the finally.
CallFailsNoFinally(req) ==
    /\ req \in requests
    /\ messages' = Append(messages, ErrorMessage(req.n))
    /\ requests' = requests \ {req}
    /\ answered' = answered + 1
    /\ Quiet
    /\ UNCHANGED <<inputText, selectedImage, loadingState, language, cropVars,
                   readers, jobs, sends, calls>>

\* generateContent rejected: solveHomework rethrows, the catch appends the
\* error message, finally sets idle.
CallFails(req) ==
    /\ req \in requests
    /\ messages' = Append(messages, ErrorMessage(req.n))
    /\ loadingState' = AfterSettle
    /\ requests' = requests \ {req}
    /\ answered' = answered + 1
    /\ Quiet
    /\ UNCHANGED <<inputText, selectedImage, language, cropVars, readers, jobs,
                   sends, calls>>

\* The Clear Chat button: setMessages(prev => [prev[0]])
ClearChat ==
    /\ messages' = <<messages[1]>>
    /\ Quiet
    /\ UNCHANGED <<inputText, selectedImage, loadingState, language, cropVars,
                   asyncVars, ghostCounters>>

\* The textarea's onChange
SetInputText(t) ==
    /\ inputText' = t
    /\ Quiet
    /\ UNCHANGED <<messages, selectedImage, loadingState, language, cropVars,
                   asyncVars, ghostCounters>>

\* The language selector's onChange
SetLanguage(l) ==
    /\ language' = l
    /\ Quiet
    /\ UNCHANGED <<messages, inputText, selectedImage, loadingState, cropVars,
                   asyncVars, ghostCounters>>

\* clearImage, from the preview's remove button (shown while an image is
\* selected)
ClearImage ==
    /\ selectedImage # None
    /\ selectedImage' = None
    /\ Quiet
    /\ UNCHANGED <<messages, inputText, loadingState, language, cropVars,
                   asyncVars, ghostCounters>>

\* ---------------------------------------------------- crop arithmetic -----
\* A JavaScript number is kept as an exact fraction <<numerator, denominator>>;
\* denominator 0 stands for NaN (0 / 0).
Num(i) == <<i, 1>>
Quot(a, b) == <<a, b>>
Times(r, s) == <<r[1] * s[1], r[2] * s[2]>>
IsNaN(r) == r[2] = 0
NumEq(r, s) == ~IsNaN(r) /\ ~IsNaN(s) /\ r[1] * s[2] = s[1] * r[2]
NumLeq(r, s) == ~IsNaN(r) /\ ~IsNaN(s) /\ r[1] * s[2] <= s[1] * r[2]

\* Assigning a number to canvas.width / canvas.height (an unsigned long):
\* NaN becomes 0, a fraction is truncated.
ToCanvasSize(r) == IF IsNaN(r) THEN 0 ELSE r[1] \div r[2]

\* window.devicePixelRatio
DevicePixelRatios == { Num(1), Quot(3, 2) }

PixelCrop(x, y, w, h) == [x |-> x, y |-> y, width |-> w, height |-> h]

\* The rectangles ReactCrop's onComplete is tried with.  The library keeps
\* a crop inside the displayed picture.
CropCandidates == { PixelCrop(100, 100, 400, 300), PixelCrop(1, 0, 3, 1) }

PixelCrops(displayed) ==
    { c \in CropCandidates :
        c.x + c.width <= displayed[1] /\ c.y + c.height <= displayed[2] }

\* centerAspectCrop(width, height, 16 / 9) with the aspect removed: a
\* centred crop 90% wide, in percent units.
CenterAspectCrop(mediaWidth, mediaHeight) ==
    [unit |-> "%", width |-> InitialCropWidthPercent]

\* The percent crop ReactCrop's onChange is tried with.
PercentCrops == { [unit |-> "%", width |-> 50] }

\* ---------------------------------------------------------- crop flow -----
\* The modal, with its <img ref={imgRef}>, is rendered.
ModalRendered == isCropping /\ cropImageSrc # None

\* The <img> keeps its loaded picture only while it stays mounted with the
\* same src.
LoadedAfter(newIsCropping, newSrc) ==
    imgLoaded /\ ModalRendered /\ newIsCropping /\ newSrc = cropImageSrc

\* image.naturalWidth/Height and image.width/height of imgRef.current
ImageNatural ==
    IF imgLoaded THEN NaturalSize(Atob(cropImageSrc[1].data)) ELSE <<0, 0>>
ImageDisplayed ==
    IF imgLoaded THEN DisplayedSize(Atob(cropImageSrc[1].data)) ELSE <<0, 0>>

Job(path, stage, src, canvas, file) ==
    [path |-> path, stage |-> stage, src |-> src, canvas |-> canvas, file |-> file]

\* onSelectFile with a file chosen: a FileReader starts reading it.
OnSelectFile(f) ==
    /\ Cardinality(readers) < MaxReaders
    /\ readers' = readers \cup {f}
    /\ Quiet
    /\ UNCHANGED <<chatVars, cropVars, jobs, requests, ghostCounters>>

\* The reader's load listener.
ReaderLoad(f) ==
    /\ f \in readers
    /\ readers' = readers \ {f}
    /\ cropImageSrc' = Some(ReadAsDataURL(f))
    /\ isCropping' = TRUE
    /\ crop' = None
    /\ imgLoaded' = LoadedAfter(TRUE, Some(ReadAsDataURL(f)))
    /\ Quiet
    /\ UNCHANGED <<chatVars, completedCrop, jobs, requests, ghostCounters>>

\* The read fails: onSelectFile listens for load only.
ReaderError(f) ==
    /\ f \in readers
    /\ readers' = readers \ {f}
    /\ Quiet
    /\ UNCHANGED <<chatVars, cropVars, jobs, requests, ghostCounters>>

\* onImageLoad
OnImageLoad ==
    /\ ModalRendered
    /\ ~imgLoaded
    /\ Decodable(Atob(cropImageSrc[1].data))
    /\ imgLoaded' = TRUE
    /\ LET d == DisplayedSize(Atob(cropImageSrc[1].data))
       IN  crop' = Some(CenterAspectCrop(d[1], d[2]))
    /\ Quiet
    /\ UNCHANGED <<chatVars, isCropping, cropImageSrc, completedCrop, asyncVars,
                   ghostCounters>>

\* ReactCrop onChange={(_, percentCrop) => setCrop(percentCrop)}
OnChange(percentCrop) ==
    /\ ModalRendered
    /\ imgLoaded
    /\ crop' = Some(percentCrop)
    /\ Quiet
    /\ UNCHANGED <<chatVars, isCropping, cropImageSrc, completedCrop, imgLoaded,
                   asyncVars, ghostCounters>>

\* ReactCrop onComplete={(c) => setCompletedCrop(c)}
OnComplete(c) ==
    /\ ModalRendered
    /\ imgLoaded
    /\ c \in PixelCrops(ImageDisplayed)
    /\ completedCrop' = Some(c)
    /\ confirmedFor' = cropImageSrc
    /\ alerted' = FALSE
    /\ UNCHANGED <<chatVars, isCropping, cropImageSrc, crop, imgLoaded,
                   asyncVars, ghostCounters, renderVars>>

\* cancelCrop
CancelCrop ==
    /\ ModalRendered
    /\ isCropping' = FALSE
    /\ cropImageSrc' = None
    /\ imgLoaded' = FALSE
    /\ Quiet
    /\ UNCHANGED <<chatVars, crop, completedCrop, asyncVars, ghostCounters>>

\* The test that sends getCroppedImg down its "no crop" branch.
NoCrop == ~ModalRendered \/ completedCrop = None \/ cropImageSrc = None

\* Mutant: the canvas sized without the device pixel ratio.
RasterizeNoDensity(c, natural, displayed, pixelRatio) ==
    LET scaleX == Quot(natural[1], displayed[1])
        scaleY == Quot(natural[2], displayed[2])
    IN  [width  |-> ToCanvasSize(Times(Num(c.width), scaleX)),
         height |-> ToCanvasSize(Times(Num(c.height), scaleY)),
         scale  |-> pixelRatio,
         source |-> <<Times(Num(c.x), scaleX), Times(Num(c.y), scaleY),
                      Times(Num(c.width), scaleX), Times(Num(c.height), scaleY)>>,
         dest   |-> <<Num(0), Num(0),
                      Times(Num(c.width), scaleX), Times(Num(c.height), scaleY)>>,
         of     |-> Atob(cropImageSrc[1].data).of]

\* The canvas getCroppedImg paints: its size, the transform set by
\* ctx.scale, and the drawImage source and destination rectangles.
Rasterize(c, natural, displayed, pixelRatio) ==
    LET scaleX == Quot(natural[1], displayed[1])
        scaleY == Quot(natural[2], displayed[2])
    IN  [width  |-> ToCanvasSize(Times(Times(Num(c.width), scaleX), pixelRatio)),
         height |-> ToCanvasSize(Times(Times(Num(c.height), scaleY), pixelRatio)),
         scale  |-> pixelRatio,
         source |-> <<Times(Num(c.x), scaleX), Times(Num(c.y), scaleY),
                      Times(Num(c.width), scaleX), Times(Num(c.height), scaleY)>>,
         dest   |-> <<Num(0), Num(0),
                      Times(Num(c.width), scaleX), Times(Num(c.height), scaleY)>>,
         of     |-> Atob(cropImageSrc[1].data).of]

\* getCroppedImg (the Done button), up to its first await or to toBlob.
GetCroppedImg(pixelRatio) ==
    /\ ModalRendered
    /\ Cardinality(jobs) < MaxJobs
    /\ IF NoCrop
       THEN /\ IF cropImageSrc # None
               THEN jobs' = jobs \cup {Job("full", "fetch", cropImageSrc, None, None)}
               ELSE jobs' = jobs
            /\ Quiet
       ELSE /\ jobs' = jobs \cup
                 {Job("crop", "toBlob", None,
                      Some(Rasterize(completedCrop[1], ImageNatural,
                                     ImageDisplayed, pixelRatio)),
                      None)}
            /\ Quiet
    /\ UNCHANGED <<chatVars, cropVars, readers, requests, ghostCounters>>

\* fetch(cropImageSrc) and response.blob() are done: the File is made and
\* processFinalImage starts reading it.
FetchDone(j) ==
    /\ j \in jobs
    /\ j.stage = "fetch"
    /\ jobs' = (jobs \ {j}) \cup
          {Job("full", "encode", None, None,
               Some(NewFile(FetchBlob(j.src[1]), "image/jpeg")))}
    /\ Quiet
    /\ UNCHANGED <<chatVars, cropVars, readers, requests, ghostCounters>>

\* What canvas.toBlob encodes: the pixels painted, as a JPEG.
CanvasBytes(canvas) ==
    [of |-> canvas.of, region |-> canvas.source,
     surface |-> <<canvas.width, canvas.height>>]

\* The toBlob callback with a blob: the File is made and processFinalImage
\* starts reading it.  A canvas without pixels gives no blob.
ToBlobDone(j) ==
    /\ j \in jobs
    /\ j.stage = "toBlob"
    /\ j.canvas[1].width > 0 /\ j.canvas[1].height > 0
    /\ jobs' = (jobs \ {j}) \cup
          {Job("crop", "encode", None, None,
               Some(NewFile([type |-> "image/jpeg", bytes |-> CanvasBytes(j.canvas[1])],
                            "image/jpeg")))}
    /\ Quiet
    /\ UNCHANGED <<chatVars, cropVars, readers, requests, ghostCounters>>

\* The toBlob callback with null: if (!blob) return
ToBlobNull(j) ==
    /\ j \in jobs
    /\ j.stage = "toBlob"
    /\ jobs' = jobs \ {j}
    /\ Quiet
    /\ UNCHANGED <<chatVars, cropVars, readers, requests, ghostCounters>>

\* What getCroppedImg does after processFinalImage returns: both branches
\* close the modal, the crop branch also drops the source.
CloseAfter(j) ==
    /\ isCropping' = FALSE
    /\ cropImageSrc' = IF j.path = "crop" THEN None ELSE cropImageSrc
    /\ imgLoaded' = FALSE

\* The selected image processFinalImage sets.
SelectedImageOf(file) ==
    [base64 |-> FileToGenerativePart(file).data,
     mimeType |-> FileToGenerativePart(file).mimeType,
     preview |-> file.bytes]

\* processFinalImage: the read succeeded.
EncodeDone(j) ==
    /\ j \in jobs
    /\ j.stage = "encode"
    /\ jobs' = jobs \ {j}
    /\ selectedImage' = Some(SelectedImageOf(j.file[1]))
    /\ CloseAfter(j)
    /\ Quiet
    /\ UNCHANGED <<messages, inputText, loadingState, language, crop,
                   completedCrop, readers, requests, ghostCounters>>

\* processFinalImage: the read failed; the catch alerts.
EncodeFails(j) ==
    /\ j \in jobs
    /\ j.stage = "encode"
    /\ jobs' = jobs \ {j}
    /\ CloseAfter(j)
    /\ Alert
    /\ UNCHANGED <<chatVars, crop, completedCrop, readers, requests, ghostCounters>>

\* ------------------------------------------------------ specification -----
\* The handlers of a send and its continuations.
SendActions(texts, maxSends) ==
    \/ HandleSendMessage(maxSends)
    \/ \E req \in requests : \E r \in ReplyTexts : ResponseArrives(req, r)
    \/ \E req \in requests : CallFails(req)
    \/ \E t \in texts : SetInputText(t)
    \/ \E l \in Languages : SetLanguage(l)
    \/ ClearImage

\* Picking a file and pressing Done, with every read succeeding.
AttachActions(files, ratios) ==
    \/ \E f \in files : OnSelectFile(f)
    \/ \E f \in readers : ReaderLoad(f)
    \/ \E pixelRatio \in ratios : GetCroppedImg(pixelRatio)
    \/ \E j \in jobs : FetchDone(j)
    \/ \E j \in jobs : EncodeDone(j)

\* What else happens in the crop modal, and the reads that fail.
CropActions(crops) ==
    \/ OnImageLoad
    \/ \E pc \in PercentCrops : OnChange(pc)
    \/ \E c \in crops : OnComplete(c)
    \/ CancelCrop
    \/ \E j \in jobs : ToBlobDone(j)
    \/ \E j \in jobs : ToBlobNull(j)
    \/ \E f \in readers : ReaderError(f)
    \/ \E j \in jobs : EncodeFails(j)

\* The chat: questions typed, a picture attached uncropped, the chat
\* cleared.
NextChat ==
    \/ SendActions({ <<>>, <<"q">> }, MaxSends)
    \/ ClearChat
    \/ AttachActions({FileA}, {Num(1)})

SpecChat == Init /\ [][NextChat]_vars

\* The request of a send: any text, with a picture or an empty file attached
\* uncropped, answered by the model.
NextSend ==
    \/ HandleSendMessage(MaxSendsWithEmptyFile)
    \/ \E req \in requests : \E r \in ReplyTexts : ResponseArrives(req, r)
    \/ \E t \in Texts : SetInputText(t)
    \/ \E l \in Languages : SetLanguage(l)
    \/ AttachActions({FileA, FileE}, {Num(1)})

SpecSend == Init /\ [][NextSend]_vars

\* Sends of any text, blank ones too, with or without a picture attached
\* uncropped.
NextBlank ==
    \/ HandleSendMessage(MaxSendsWithBlanks)
    \/ \E req \in requests : \E r \in ReplyTexts : ResponseArrives(req, r)
    \/ \E req \in requests : CallFails(req)
    \/ \E t \in Texts : SetInputText(t)
    \/ ClearImage
    \/ AttachActions({FileA}, {Num(1)})

SpecBlank == Init /\ [][NextBlank]_vars

\* The crop flow, with no message sent.
NextCrop ==
    \/ AttachActions(Files, DevicePixelRatios)
    \/ CropActions(CropCandidates)
    \/ ClearImage

SpecCrop == Init /\ [][NextCrop]_vars

\* The markdown renderer on one line.
NextRender == RenderLine

SpecRender == InitRender /\ [][NextRender]_vars

\* ------------------------------------------------------------ claims -----
Last(seq) == seq[Len(seq)]
KeepsPrefix(old, new) == Len(new) >= Len(old) /\ SubSeq(new, 1, Len(old)) = old
Settles(req) == req \in requests /\ requests' = requests \ {req}

\* C1: a send attempted while a request is in the thinking state changes
\* nothing: not the message list, the input text, the selected image or the
\* loading state, and no call to the service is made.
C1_SendWhileThinkingIsNoOp ==
    [][(loadingState = "thinking" /\ HandleSendMessage(MaxSends)) =>
          UNCHANGED <<messages, inputText, selectedImage, loadingState,
                      requests, calls, sends>>]_vars

\* A request is in flight and the input holds a question that an idle chat
\* would accept.
C1_Witness ==
    /\ loadingState = "thinking"
    /\ Trim(inputText) # <<>>
    /\ sends < MaxSends

\* C2: at most one solveHomework request is outstanding, and one is
\* outstanding exactly when loadingState is thinking.
C2_SingleInFlight ==
    /\ Cardinality(requests) <= 1
    /\ (requests # {} <=> loadingState = "thinking")

\* The second send's request is the only one outstanding, while the crop
\* modal is open on a newly picked file.
C2_Witness ==
    /\ sends = 2
    /\ Cardinality(requests) = 1
    /\ isCropping

\* C3: an accepted send takes loadingState from idle to thinking, a settled
\* call (resolved or rejected) leaves it idle, and it is never uploading or
\* streaming.
C3_IdleThinkingIdle ==
    [][/\ (sends' # sends) => (loadingState = "idle" /\ loadingState' = "thinking")
       /\ (\E req \in requests : Settles(req)) => loadingState' = "idle"
       /\ loadingState' \in {"idle", "thinking"}]_vars

\* A first cycle is over and a second send is waiting.
C3_Witness == answered = 1 /\ loadingState = "thinking"

\* The model message a settled call appends, per C4 as amended.
C4_Settled(req, replyText, failed) ==
    /\ Len(messages') = Len(messages) + 1
    /\ KeepsPrefix(messages, messages')
    /\ Last(messages').role = "model"
    /\ Last(messages').n = req.n
    /\ Last(messages').isError = failed
    /\ Last(messages').text = replyText
    /\ calls' = calls

\* What every step does to the number of calls, per C4: an accepted send
\* makes exactly one, nothing else makes any.
C4_OneCallPerSend ==
    /\ (sends' # sends) =>
          /\ sends' = sends + 1
          /\ calls' = calls + 1
          /\ Cardinality(requests') = Cardinality(requests) + 1
    /\ (calls' # calls) => (sends' # sends)

\* C4 (as amended): each accepted send makes exactly one call, and once it
\* settles exactly one model message is appended: on success a non-error
\* message with the reply text, or with the fixed "I couldn't generate a
\* solution" text when the reply has no text; on failure the error-flagged
\* fixed apology.
C4_OneCallOneMessage ==
    [][/\ C4_OneCallPerSend
       /\ \A req \in requests :
            /\ \A r \in ReplyTexts :
                 ResponseArrives(req, r) =>
                    C4_Settled(req, IF r = <<>> THEN NoSolutionText ELSE r, FALSE)
            /\ CallFails(req) => C4_Settled(req, ApologyText, TRUE)
            /\ Settles(req) => Len(messages') = Len(messages) + 1]_vars

\* C4 (as claimed): on success the message carries the reply text.
C4_Original ==
    [][/\ C4_OneCallPerSend
       /\ \A req \in requests :
            /\ \A r \in ReplyTexts :
                 ResponseArrives(req, r) => C4_Settled(req, r, FALSE)
            /\ CallFails(req) => C4_Settled(req, ApologyText, TRUE)
            /\ Settles(req) => Len(messages') = Len(messages) + 1]_vars

\* One send was answered without text, another failed.
C4_Witness ==
    /\ \E i \in 1..Len(messages) :
          messages[i].text = NoSolutionText /\ ~messages[i].isError
    /\ \E i \in 1..Len(messages) :
          messages[i].text = ApologyText /\ messages[i].isError

\* C5 (as amended): a send, a response and an error each append to the
\* message list and leave the messages before as they were; Clear Chat
\* cuts the list down to its first message, which never changes.
C5_AppendOnlyButClear ==
    [][/\ KeepsPrefix(messages, messages') \/ messages' = <<messages[1]>>
       /\ messages'[1] = messages[1]
       /\ Len(messages') <= Len(messages) + 1]_vars

\* C5 (as claimed): the list never gets shorter and no message changes.
C5_Original == [][KeepsPrefix(messages, messages')]_vars

\* The chat was cleared after a send.
C5_Witness == Len(messages) = 1 /\ sends >= 1

\* The parts of the request an accepted send makes, per C10; imagePresent
\* says when the claim expects the image part.
C10_Shape(req, imagePresent) ==
    LET k == Len(req.parts)
    IN  /\ k \in {1, 2}
        /\ req.parts[k].kind = "text"
        /\ req.parts[k].language = Some(language)
        /\ req.parts[k].question =
              Some(IF inputText = <<>> THEN DefaultQuestion ELSE inputText)
        /\ (k = 2) <=> imagePresent
        /\ (k = 2 /\ selectedImage # None) =>
              /\ req.parts[1].kind = "inlineData"
              /\ req.parts[1].data = Some(selectedImage[1].base64)
              /\ req.parts[1].mimeType = Some(selectedImage[1].mimeType)
        /\ req.temperature = 4

\* C10 (as amended): a request has an optional inline image part and then
\* exactly one text part, last; the image part is there exactly when the
\* image attached to the send has a non-empty payload; the text part holds
\* the preamble and the literal question, or the default question when the
\* question is empty; the temperature is 0.4.
C10_RequestParts ==
    [][(sends' # sends) =>
          /\ Cardinality(requests' \ requests) = 1
          /\ \A req \in requests' \ requests :
                C10_Shape(req, selectedImage # None
                               /\ selectedImage[1].base64 # EmptyString)]_vars

\* C10 (as claimed): the image part is there exactly when an image was
\* attached.
C10_Original ==
    [][(sends' # sends) =>
          /\ Cardinality(requests' \ requests) = 1
          /\ \A req \in requests' \ requests :
                C10_Shape(req, selectedImage # None)]_vars

\* A send with the empty file attached went out without an image part.
C10_Witness ==
    \E req \in requests :
        /\ Len(req.parts) = 1
        /\ \E i \in 1..Len(messages) :
              /\ messages[i].n = req.n
              /\ messages[i].role = "user"
              /\ messages[i].image = Some(EmptyString)

Plus(r, s) == <<r[1] * s[2] + s[1] * r[2], r[2] * s[2]>>
Positive(r) == NumLeq(Num(0), r) /\ ~NumEq(r, Num(0))

\* No crop rectangle was confirmed on the picture the modal shows.
NoConfirmedCrop == completedCrop = None \/ confirmedFor # cropImageSrc

\* The file the user picked that has these bytes.
PickedFile(bytes) == CHOOSE f \in Files : f.bytes = bytes

\* C6 (as claimed): Done without a crop confirmed on the picture being
\* cropped rasterizes nothing, and makes the whole original picture the
\* selected image, with its content and its MIME type; the modal closes
\* and no error is raised.
C6_Original ==
    [][/\ \A pr \in DevicePixelRatios :
            (GetCroppedImg(pr) /\ NoConfirmedCrop) =>
               \A j \in jobs' \ jobs : j.path = "full" /\ j.src = cropImageSrc
       /\ \A j \in jobs :
            (j.path = "full" /\ EncodeDone(j)) =>
               /\ selectedImage' # None
               /\ Atob(selectedImage'[1].base64) = j.file[1].bytes
               /\ selectedImage'[1].mimeType = PickedFile(j.file[1].bytes).type
               /\ ~isCropping'
               /\ ~alerted']_vars

\* C7 (as claimed): a failed read of the picked file, or a failed encoding
\* of the final image, raises an alert and records nothing.
C7_Original ==
    [][((\E f \in readers : ReaderError(f)) \/ (\E j \in jobs : EncodeFails(j))) =>
          /\ alerted'
          /\ messages' = messages
          /\ selectedImage' = selectedImage]_vars

\* C8 (as claimed): the rectangle the rasterizer reads, in natural pixels,
\* lies inside the picture being cropped and has a width and a height
\* above 0.
C8_Original ==
    \A j \in jobs :
        j.canvas # None =>
            LET cv == j.canvas[1]
                natural == NaturalSize(OriginalBytes(cv.of))
            IN  /\ NumLeq(Num(0), cv.source[1])
                /\ NumLeq(Num(0), cv.source[2])
                /\ NumLeq(Plus(cv.source[1], cv.source[3]), Num(natural[1]))
                /\ NumLeq(Plus(cv.source[2], cv.source[4]), Num(natural[2]))
                /\ Positive(cv.source[3])
                /\ Positive(cv.source[4])

\* The canvas of C9 for crop c of a picture natural pixels large shown
\* displayed pixels large, at pixel ratio pr; width and height say how the
\* surface is sized from the exact products.
C9_Canvas(cv, c, natural, displayed, pr) ==
    /\ NumEq(cv.source[1], Quot(c.x * natural[1], displayed[1]))
    /\ NumEq(cv.source[2], Quot(c.y * natural[2], displayed[2]))
    /\ NumEq(cv.source[3], Quot(c.width * natural[1], displayed[1]))
    /\ NumEq(cv.source[4], Quot(c.height * natural[2], displayed[2]))
    /\ NumEq(cv.dest[1], Num(0))
    /\ NumEq(cv.dest[2], Num(0))
    /\ NumEq(Times(cv.dest[3], cv.scale),
             Quot(c.width * natural[1] * pr[1], displayed[1] * pr[2]))
    /\ NumEq(Times(cv.dest[4], cv.scale),
             Quot(c.height * natural[2] * pr[1], displayed[2] * pr[2]))

\* C9 (as amended): for a crop confirmed on a loaded picture, the surface
\* is as wide and as high as cropWidth*scaleX*pixelDensity and
\* cropHeight*scaleY*pixelDensity cut down to whole pixels, and the region
\* painted is (x*scaleX, y*scaleY, width*scaleX, height*scaleY), drawn over
\* the whole surface; crop (100,100,400,300) of a 1200x800 picture shown at
\* 600x400, density 1, gives 800x600.
C9_SurfaceTruncated ==
    [][\A pr \in DevicePixelRatios :
          (GetCroppedImg(pr) /\ ~NoCrop /\ imgLoaded) =>
             LET c == completedCrop[1]
                 natural == ImageNatural
                 displayed == ImageDisplayed
             IN  \E j \in jobs' :
                    /\ j.canvas # None
                    /\ C9_Canvas(j.canvas[1], c, natural, displayed, pr)
                    /\ j.canvas[1].width =
                          (c.width * natural[1] * pr[1]) \div (displayed[1] * pr[2])
                    /\ j.canvas[1].height =
                          (c.height * natural[2] * pr[1]) \div (displayed[2] * pr[2])
                    /\ (/\ c = PixelCrop(100, 100, 400, 300)
                        /\ natural = <<1200, 800>>
                        /\ displayed = <<600, 400>>
                        /\ pr = Num(1)) =>
                          (j.canvas[1].width = 800 /\ j.canvas[1].height = 600)]_vars

\* C9 (as claimed): the surface is exactly cropWidth*scaleX*pixelDensity
\* wide and cropHeight*scaleY*pixelDensity high.
C9_Original ==
    [][\A pr \in DevicePixelRatios :
          (GetCroppedImg(pr) /\ ~NoCrop /\ imgLoaded) =>
             LET c == completedCrop[1]
                 natural == ImageNatural
                 displayed == ImageDisplayed
             IN  \E j \in jobs' :
                    /\ j.canvas # None
                    /\ C9_Canvas(j.canvas[1], c, natural, displayed, pr)
                    /\ NumEq(Num(j.canvas[1].width),
                             Quot(c.width * natural[1] * pr[1], displayed[1] * pr[2]))
                    /\ NumEq(Num(j.canvas[1].height),
                             Quot(c.height * natural[2] * pr[1], displayed[2] * pr[2]))]_vars

\* A canvas 4 pixels wide was painted from a region 4.5 natural pixels wide.
C9_Witness ==
    \E j \in jobs :
        /\ j.canvas # None
        /\ j.canvas[1].width = 4
        /\ NumEq(j.canvas[1].source[3], Quot(9, 2))

\* The tags of an HTML text, in order: each runs from a "<" to the next ">".
RECURSIVE TagsFrom(_, _)
TagsFrom(h, i) ==
    IF i > Len(h) THEN <<>>
    ELSE IF h[i] = "<"
         THEN LET ends == { j \in i..Len(h) : h[j] = ">" }
                  e == IF ends = {} THEN Len(h) ELSE Min(ends)
              IN  <<SubSeq(h, i, e)>> \o TagsFrom(h, e + 1)
         ELSE TagsFrom(h, i + 1)

\* The text of an HTML text outside its tags.
RECURSIVE TextFrom(_, _)
TextFrom(h, i) ==
    IF i > Len(h) THEN <<>>
    ELSE IF h[i] = "<"
         THEN LET ends == { j \in i..Len(h) : h[j] = ">" }
                  e == IF ends = {} THEN Len(h) ELSE Min(ends)
              IN  TextFrom(h, e + 1)
         ELSE <<h[i]>> \o TextFrom(h, i + 1)

\* Every "&" of a text starts one of the three character references.
Entities == { <<"&", "a", "m", "p", ";">>, <<"&", "l", "t", ";">>, <<"&", "g", "t", ";">> }
OnlyEntities(t) ==
    \A i \in 1..Len(t) :
        t[i] = "&" => \E e \in Entities : MarkerAt(t, i, e)

\* Each closing tag closes the element opened last and not yet closed, and
\* nothing stays open.
RECURSIVE ProperlyNested(_, _)
ProperlyNested(tags, open) ==
    IF tags = <<>> THEN open = <<>>
    ELSE IF Head(tags) \in {BoldOpen, CodeOpen}
         THEN ProperlyNested(Tail(tags), <<Head(tags)>> \o open)
         ELSE /\ open # <<>>
              /\ \/ Head(tags) = BoldClose /\ Head(open) = BoldOpen
                 \/ Head(tags) = CodeClose /\ Head(open) = CodeOpen
              /\ ProperlyNested(Tail(tags), Tail(open))

\* The line's own "&", "<" and ">" come out as character references, and
\* the only tags are those of <b> and <code>.
C11_EscapedFirst ==
    html # None =>
        /\ \A i \in 1..Len(TagsFrom(html[1], 1)) :
              TagsFrom(html[1], 1)[i] \in {BoldOpen, BoldClose, CodeOpen, CodeClose}
        /\ OnlyEntities(TextFrom(html[1], 1))
        /\ \A i \in 1..Len(TextFrom(html[1], 1)) : TextFrom(html[1], 1)[i] # ">"

\* The examples of the claim.
C11_Examples ==
    html # None =>
        /\ line = <<"*", "*", "x", "*", "*">> =>
              html[1] = BoldOpen \o <<"x">> \o BoldClose
        /\ line = <<Backquote, "x", Backquote>> =>
              html[1] = CodeOpen \o <<"x">> \o CodeClose
        /\ line = <<"<", "b", ">", " ", "*", "*", "o", "k", "*", "*", " ", "<", "/", "b", ">">> =>
              html[1] = <<"&", "l", "t", ";", "b", "&", "g", "t", ";", " ">>
                        \o BoldOpen \o <<"o", "k">> \o BoldClose
                        \o <<" ", "&", "l", "t", ";", "/", "b", "&", "g", "t", ";">>

\* The tags of the rendered line are opened and closed in proper order.
C11_TagsNested == html # None => ProperlyNested(TagsFrom(html[1], 1), <<>>)

\* C11 (as claimed): formatBold escapes every "&", "<" and ">" of the line
\* before it turns the bold and code markers into markup, so that the only
\* tags of its output are <b> and <code> tags, properly opened and closed;
\* "<b> **ok** </b>" gives the literal text <b> with ok in bold, "**x**"
\* gives x in bold, and x between grave accents gives x as code.
C11_Original == C11_EscapedFirst /\ C11_Examples /\ C11_TagsNested

\* C12: an accepted send attaches the selected image to its user message
\* and leaves the selected image null and the input text empty; an image
\* becomes the selected one only when the encoding started by a press of
\* Done finishes, which uses that press up.  An encoded image thus goes out
\* with one send at most.
C12_ImageDiscardedOnSend ==
    [][/\ (sends' # sends) =>
             /\ selectedImage' = None
             /\ inputText' = <<>>
             /\ Last(messages').role = "user"
             /\ Last(messages').image =
                   (IF selectedImage = None THEN None
                    ELSE Some(selectedImage[1].base64))
       /\ (selectedImage' # None /\ selectedImage' # selectedImage) =>
             \E j \in jobs :
                /\ j.stage = "encode"
                /\ jobs' = jobs \ {j}
                /\ selectedImage' = Some(SelectedImageOf(j.file[1]))
                /\ sends' = sends]_vars

\* A picture went out with the first send, was picked and confirmed again,
\* and went out with the second; nothing is selected now.
C12_Witness ==
    /\ selectedImage = None
    /\ \E i, k \in 1..Len(messages) :
          /\ i < k
          /\ messages[i].role = "user" /\ messages[i].image # None
          /\ messages[k].role = "user" /\ messages[k].image # None

\* What a send records, per C13: its user message holds the text and the
\* image current at the send, and its request holds the language current
\* at the send, the question made of the text, and the image part the
\* claim expects.
C13_Captured(req, question, imagePresent) ==
    LET m == Last(messages')
        k == Len(req.parts)
    IN  /\ m.role = "user"
        /\ m.n = req.n
        /\ m.text = inputText
        /\ m.image = (IF selectedImage = None THEN None
                      ELSE Some(selectedImage[1].base64))
        /\ req.parts[k].kind = "text"
        /\ req.parts[k].language = Some(language)
        /\ req.parts[k].question = Some(question)
        /\ (k = 2) <=> imagePresent
        /\ k = 2 =>
              /\ req.parts[1].data = m.image
              /\ req.parts[1].mimeType = Some(selectedImage[1].mimeType)

\* A request in flight stays as it was made until it settles, and a user
\* message stays as it was appended while it is in the list.
C13_Unaltered ==
    /\ \A req \in requests : req \in requests' \/ Settles(req)
    /\ \A i \in 1..Len(messages) :
          i <= Len(messages') => messages'[i] = messages[i]

\* C13 (as amended): the request made for a send carries the language
\* current at the send, the text current at the send, or the default
\* question when that text is empty, and the image payload and MIME type
\* current at the send when that payload is not empty; the user message of
\* the send records that text and that image; the input text, the selected
\* image and the language changing while the request is in flight alter
\* neither the request nor the user message.
C13_RequestCaptured ==
    [][/\ (sends' # sends) =>
             \E req \in requests' \ requests :
                C13_Captured(req, QuestionOf(inputText),
                             selectedImage # None
                             /\ selectedImage[1].base64 # EmptyString)
       /\ C13_Unaltered]_vars

\* C13 (as claimed): the request carries exactly the text and the image
\* that the user message records.
C13_Original ==
    [][/\ (sends' # sends) =>
             \E req \in requests' \ requests :
                C13_Captured(req, inputText, selectedImage # None)
       /\ C13_Unaltered]_vars

\* A request made with a picture and no text is in flight; since then a
\* question was typed, a picture selected and the language changed.
C13_Witness ==
    \E req \in requests :
        /\ Len(req.parts) = 2
        /\ req.parts[2].question = Some(DefaultQuestion)
        /\ req.parts[2].language # Some(language)
        /\ inputText # <<>>
        /\ selectedImage # None

\* The list is not empty and starts with the welcome message.
C14_WelcomeFirst == Len(messages) >= 1 /\ messages[1] = WelcomeMessage

\* After the welcome message every model message comes right after the
\* user message of its send, and every user message is followed by a model
\* message, but for the last one while its request is in flight.
C14_Alternates ==
    \A i \in 2..Len(messages) :
        /\ messages[i].role = "model" =>
              /\ i > 2
              /\ messages[i - 1].role = "user"
              /\ messages[i - 1].n = messages[i].n
        /\ messages[i].role = "user" =>
              IF i = Len(messages) THEN loadingState = "thinking"
              ELSE messages[i + 1].role = "model"

\* C14 (as claimed): in every reachable state the message list is not
\* empty, its first element is the welcome message, and user and model
\* messages alternate after it, each model message right after the user
\* message whose send produced it, with at most one unanswered user message
\* at the end while thinking; also when Clear Chat is pressed while a
\* request is in flight.
C14_Original == C14_WelcomeFirst /\ C14_Alternates

\* Cancel closes the crop modal and touches nothing of the chat.
C15_CancelFrame ==
    [][CancelCrop =>
          /\ ~ModalRendered'
          /\ UNCHANGED <<selectedImage, messages, loadingState>>]_vars

\* The encoding started by a press of Done makes its image the selected
\* one only while the modal is still open on the picture the image is of.
C15_NothingAfterCancel ==
    [][\A j \in jobs :
          EncodeDone(j) =>
             /\ ModalRendered
             /\ j.file[1].bytes.of = Atob(cropImageSrc[1].data).of]_vars

\* C15 (as claimed): cancelCrop closes the crop modal and leaves the
\* selected image, the message list and the loading state as they are, and
\* after Cancel no image of that crop session becomes the selected image,
\* even when Done was pressed before Cancel and its rasterize/encode
\* callback is still pending.
C15_Original == C15_CancelFrame /\ C15_NothingAfterCancel

\* Every user message has text that is not blank or has an image.
C16_UserMessagesFilled ==
    \A i \in 1..Len(messages) :
        messages[i].role = "user" =>
            Trim(messages[i].text) # <<>> \/ messages[i].image # None

\* C16: a send is accepted only with input text that is not blank once
\* trimmed or with an image selected; a send with blank text and no image
\* selected, whatever the loading state, appends no message, makes no call
\* and leaves the input text, the selected image and the loading state as
\* they are; so every user message has text that is not blank or an image.
C16_BlankSendRejected ==
    [][/\ (/\ Trim(inputText) = <<>>
           /\ selectedImage = None
           /\ HandleSendMessage(MaxSendsWithBlanks)) =>
             UNCHANGED <<messages, requests, calls, sends, inputText,
                         selectedImage, loadingState>>
       /\ (sends' # sends) => (Trim(inputText) # <<>> \/ selectedImage # None)
       /\ C16_UserMessagesFilled']_vars

\* A message went out with an image and blank text; now the input is a
\* space, nothing is selected and the chat is idle.
C16_Witness ==
    /\ inputText = <<" ">>
    /\ selectedImage = None
    /\ loadingState = "idle"
    /\ \E i \in 1..Len(messages) :
          /\ messages[i].role = "user"
          /\ Trim(messages[i].text) = <<>>
          /\ messages[i].image # None
====
